---- MODULE Spec2Model ----
(***************************************************************************)
(* State-machine model of src/app.py: the snapshot file, load_history,     *)
(* save_history, check_website, the monitor_loop thread, get_payload and   *)
(* the __main__ start-up guard.                                            *)
(***************************************************************************)
EXTENDS Integers, Sequences, FiniteSets, TLC

(***************************************************************************)
(* Bounds and program constants                                            *)
(***************************************************************************)
\* HISTORY_LENGTH (src/app.py:20, 20 in the program) scaled down.
HISTORY_LENGTH == 2
\* UPDATE_INTERVAL (src/app.py:21), seconds slept between two cycles.
UPDATE_INTERVAL == 30
\* Number of scheduler cycles explored.
MaxCycles == 3
\* Number of process restarts explored.
MaxRestarts == 1
\* Number of requests served by get_payload.
MaxRequests == 1
\* Number of times the reloader replaces its child process.
MaxReloads == 1
\* Number of requests the network fails, and of snapshot writes the disk fails.
MaxNetFailures == 1
MaxIOFailures == 1
\* Longest history the uptime is computed of when get_payload is taken alone:
\* the program's capacity of 20 and the entry appended before the eviction.
MaxLen == 21

(***************************************************************************)
(* Python values, tagged by their type                                     *)
(***************************************************************************)
None == [kind |-> "none"]
PyDict(items) == [kind |-> "dict", items |-> items]
PyList(elems) == [kind |-> "list", elems |-> elems]
PyInt(n) == [kind |-> "int", n |-> n]
PyStr(s) == [kind |-> "str", s |-> s]
DateTime(t) == [kind |-> "datetime", t |-> t]

Item(k, v) == [k |-> k, v |-> v]

\* name in d
DictHas(d, k) == \E i \in DOMAIN d.items : d.items[i].k = k

\* d[name]
DictItem(d, k) == d.items[CHOOSE i \in DOMAIN d.items : d.items[i].k = k].v

\* d.get(name, default)
DictGet(d, k, default) == IF DictHas(d, k) THEN DictItem(d, k) ELSE default

\* d[name] = v : an existing key keeps its place, a new key goes last
DictSet(d, k, v) ==
  IF DictHas(d, k)
  THEN PyDict([i \in DOMAIN d.items |->
                 IF d.items[i].k = k THEN Item(k, v) ELSE d.items[i]])
  ELSE PyDict(Append(d.items, Item(k, v)))

\* bool(v)
Truthy(v) ==
  CASE v.kind = "none" -> FALSE
    [] v.kind = "dict" -> Len(v.items) > 0
    [] v.kind = "list" -> Len(v.elems) > 0
    [] v.kind = "int"  -> v.n # 0
    [] v.kind = "str"  -> v.s # ""
    [] OTHER -> TRUE

\* seq[-n:]
Tail_n(seq, n) ==
  IF Len(seq) <= n THEN seq ELSE SubSeq(seq, Len(seq) - n + 1, Len(seq))

(***************************************************************************)
(* Time: datetime.now(), isoformat(), fromisoformat()                      *)
(***************************************************************************)
MinTime == 0 - (HISTORY_LENGTH + 2) * UPDATE_INTERVAL
MaxTime == (MaxCycles + 1) * UPDATE_INTERVAL
Times == {t \in MinTime..MaxTime : t % UPDATE_INTERVAL = 0}

\* datetime.isoformat(): the text of a point in time
isoformat(dt) == "T" \o ToString(dt.t)

IsIsoText(s) == \E t \in Times : isoformat(DateTime(t)) = s

\* datetime.fromisoformat(): defined on the texts isoformat() produces
fromisoformat(s) == DateTime(CHOOSE t \in Times : isoformat(DateTime(t)) = s)

(***************************************************************************)
(* json.dump / json.load                                                   *)
(***************************************************************************)
RECURSIVE Serializable(_)
Serializable(v) ==
  CASE v.kind = "dict" -> \A i \in DOMAIN v.items : Serializable(v.items[i].v)
    [] v.kind = "list" -> \A i \in DOMAIN v.elems : Serializable(v.elems[i])
    [] v.kind = "datetime" -> FALSE
    [] OTHER -> TRUE

RECURSIVE JsonEncode(_)
JsonEncode(v) ==
  CASE v.kind = "none" -> [kind |-> "null"]
    [] v.kind = "int" -> [kind |-> "number", n |-> v.n]
    [] v.kind = "str" -> [kind |-> "string", s |-> v.s]
    [] v.kind = "list" ->
         [kind |-> "array",
          elems |-> [i \in DOMAIN v.elems |-> JsonEncode(v.elems[i])]]
    [] v.kind = "dict" ->
         [kind |-> "object",
          members |-> [i \in DOMAIN v.items |->
                         Item(v.items[i].k, JsonEncode(v.items[i].v))]]
    [] v.kind = "result" -> [kind |-> "resultobject", fields |-> v]

RECURSIVE JsonDecode(_)
JsonDecode(j) ==
  CASE j.kind = "null" -> None
    [] j.kind = "number" -> PyInt(j.n)
    [] j.kind = "string" -> PyStr(j.s)
    [] j.kind = "array" ->
         PyList([i \in DOMAIN j.elems |-> JsonDecode(j.elems[i])])
    [] j.kind = "object" ->
         PyDict([i \in DOMAIN j.members |->
                   Item(j.members[i].k, JsonDecode(j.members[i].v))])
    [] j.kind = "resultobject" -> j.fields

\* The snapshot file history.json
FileMissing == [kind |-> "missing"]
FileGarbage == [kind |-> "garbage"]
FileText(j) == [kind |-> "text", json |-> j]

(***************************************************************************)
(* Configuration                                                           *)
(***************************************************************************)
Site(name, url) == [name |-> name, url |-> url]

SERVICE_GROUPS ==
  << [group |-> "UIUC Services",
      sites |-> << Site("Self-Service", "https://apps.uillinois.edu/selfservice"),
                   Site("Canvas", "https://canvas.illinois.edu") >>],
     [group |-> "General Services",
      sites |-> << Site("OpenAI (ChatGPT)", "https://api.openai.com/v1/models") >>] >>

RECURSIVE Flatten(_)
Flatten(groups) ==
  IF groups = <<>> THEN <<>> ELSE Head(groups).sites \o Flatten(Tail(groups))

\* The order of the two nested for loops over SERVICE_GROUPS
Endpoints == Flatten(SERVICE_GROUPS)
NumEndpoints == Len(Endpoints)
Names == {Endpoints[i].name : i \in 1..NumEndpoints}

(***************************************************************************)
(* check_website                                                           *)
(***************************************************************************)
AcceptedCodes == {200, 201, 202, 301, 302, 401, 403}

Response(code, ms) == [kind |-> "response", code |-> code, ms |-> ms]
Failure(msg) == [kind |-> "exception", msg |-> msg]

\* is_up taken from response.ok: any code below 400, and no other
check_website_ok(o, clock) ==
  IF o.kind = "response"
  THEN [kind |-> "result",
        status |-> IF o.code < 400 THEN "up" ELSE "down",
        time |-> o.ms,
        code |-> o.code,
        timestamp |-> isoformat(DateTime(clock))]
  ELSE [kind |-> "result",
        status |-> "down",
        time |-> 0,
        error |-> o.msg,
        timestamp |-> isoformat(DateTime(clock))]

\* Lines 95-122: o is what requests.get did, a response or an exception
check_website(o, clock) ==
  IF o.kind = "response"
  THEN [kind |-> "result",
        status |-> IF o.code \in AcceptedCodes THEN "up" ELSE "down",
        time |-> o.ms,
        code |-> o.code,
        timestamp |-> isoformat(DateTime(clock))]
  ELSE [kind |-> "result",
        status |-> "down",
        time |-> 0,
        error |-> o.msg,
        timestamp |-> isoformat(DateTime(clock))]

\* What the network does to one request in the scheduler runs
NetOutcomes == {Response(200, 12), Failure("timed out")}

(***************************************************************************)
(* load_history                                                            *)
(***************************************************************************)
Sliceable(v) == v.kind \in {"list", "str"}

\* v[-HISTORY_LENGTH:]; the texts of the model are one character long, so a
\* text is its own tail
Slice(v) ==
  IF v.kind = "list" THEN PyList(Tail_n(v.elems, HISTORY_LENGTH)) ELSE v

\* The trim loop of lines 70-71 from position i on: the items after it, and
\* whether the slice of a value raised (the loop stops there)
RECURSIVE TrimFrom(_, _)
TrimFrom(items, i) ==
  IF i > Len(items) THEN [items |-> items, raised |-> FALSE]
  ELSE IF ~Sliceable(items[i].v) THEN [items |-> items, raised |-> TRUE]
  ELSE TrimFrom([items EXCEPT ![i] = Item(items[i].k, Slice(items[i].v))], i + 1)

Mem(h, c, t) == [status_history |-> h, current_status |-> c, last_check_time |-> t]

\* Lines 73-75, reached when the trim loop did not raise
LoadRest(data, h, mem) ==
  LET c0 == DictGet(data, "current", PyDict(<<>>))
      lc == DictGet(data, "last_check", None)
  IN  IF ~Truthy(lc) THEN Mem(h, c0, mem.last_check_time)
      ELSE IF lc.kind = "str" /\ IsIsoText(lc.s)
      THEN Mem(h, c0, fromisoformat(lc.s))
      ELSE \* fromisoformat raises: lines 68 and 73 have already assigned
           Mem(h, c0, mem.last_check_time)

load_history(f, mem) ==
  IF f.kind = "missing" THEN mem
  ELSE IF f.kind = "garbage" THEN mem
  ELSE
    LET data == JsonDecode(f.json) IN
    IF data.kind # "dict" THEN mem
    ELSE
      LET h0 == DictGet(data, "history", PyDict(<<>>)) IN
      IF h0.kind = "dict"
      THEN LET tr == TrimFrom(h0.items, 1) IN
           IF tr.raised
           THEN Mem(PyDict(tr.items), mem.current_status, mem.last_check_time)
           ELSE LoadRest(data, PyDict(tr.items), mem)
      ELSE IF h0.kind \in {"list", "str"} /\ ~Truthy(h0)
      THEN \* nothing to iterate over
           LoadRest(data, h0, mem)
      ELSE \* the for statement raises; line 68 has already assigned
           Mem(h0, mem.current_status, mem.last_check_time)

(***************************************************************************)
(* save_history                                                            *)
(***************************************************************************)
\* The dict built at lines 82-86
SaveData(mem) ==
  PyDict(<< Item("history", mem.status_history),
            Item("current", mem.current_status),
            Item("last_check",
                 IF Truthy(mem.last_check_time)
                 THEN PyStr(isoformat(mem.last_check_time))
                 ELSE None) >>)

\* The file after save_history. "ok": open and json.dump succeed; "open":
\* open(HISTORY_FILE, 'w') raises, the file is untouched; "write": the file
\* was truncated by open and the dump raised before completing.
save_history(f, mem, io) ==
  IF io = "open" THEN f
  ELSE IF io = "write" \/ ~Serializable(SaveData(mem)) THEN FileGarbage
  ELSE FileText(JsonEncode(SaveData(mem)))

IOOutcomes == {"ok", "open", "write"}

(***************************************************************************)
(* Snapshot files found at start-up                                        *)
(***************************************************************************)
OldUp(t) == check_website(Response(200, 15), t)
OldDown(t) == check_website(Failure("refused"), t)

\* n results, the oldest first, the last one taken UPDATE_INTERVAL before 0
OldRun(n) ==
  [j \in 1..n |-> IF j % 2 = 0 THEN OldDown(0 - (n - j + 1) * UPDATE_INTERVAL)
                  ELSE OldUp(0 - (n - j + 1) * UPDATE_INTERVAL)]

Snapshot(h, c, lc) ==
  FileText(JsonEncode(PyDict(<< Item("history", h), Item("current", c),
                                Item("last_check", lc) >>)))

\* A history longer than the capacity (written under a larger HISTORY_LENGTH)
LongList == PyList(OldRun(HISTORY_LENGTH + 1))
ShortList == PyList(OldRun(1))
LastOld == OldRun(1)[1]
\* The result current_status holds for a history when a cycle has completed
LastOf(l) == l.elems[Len(l.elems)]
OldCheck == PyStr(isoformat(DateTime(0 - UPDATE_INTERVAL)))

GoodCurrent ==
  PyDict(<< Item("Self-Service", LastOld), Item("Canvas", LastOld),
            Item("OpenAI (ChatGPT)", LastOld) >>)

\* Well-formed: one over-long history, one short, one endpoint never probed,
\* one endpoint no longer configured
FileGood ==
  Snapshot(PyDict(<< Item("Self-Service", LongList), Item("Canvas", ShortList),
                     Item("Old Service", LongList) >>),
           PyDict(<< Item("Self-Service", LastOf(LongList)),
                     Item("Canvas", LastOf(ShortList)),
                     Item("Old Service", LastOf(LongList)) >>),
           OldCheck)

\* The history of a configured endpoint is a number
FileNonList ==
  Snapshot(PyDict(<< Item("Self-Service", LongList), Item("Canvas", PyInt(5)),
                     Item("OpenAI (ChatGPT)", LongList) >>),
           GoodCurrent, OldCheck)

\* The history of a configured endpoint is a text
FileStrValue ==
  Snapshot(PyDict(<< Item("Self-Service", ShortList), Item("Canvas", PyStr("x")) >>),
           GoodCurrent, OldCheck)

\* The history of an endpoint no longer configured is a number
FileStale ==
  Snapshot(PyDict(<< Item("Old Service", PyInt(5)), Item("Self-Service", LongList) >>),
           GoodCurrent, OldCheck)

\* last_check is no ISO timestamp
FileBadTime ==
  Snapshot(PyDict(<< Item("Self-Service", ShortList) >>),
           PyDict(<< Item("Self-Service", LastOld) >>),
           PyStr("yesterday"))

\* history is null
FileNullHistory == Snapshot(None, GoodCurrent, OldCheck)

\* current is null
FileNullCurrent ==
  Snapshot(PyDict(<< Item("Self-Service", ShortList) >>), None, OldCheck)

\* Valid JSON that is no object
FileNotObject == FileText(JsonEncode(PyList(<<>>)))

InitialFiles ==
  {FileMissing, FileGarbage, FileNotObject, FileGood, FileNonList, FileStrValue,
   FileStale, FileBadTime, FileNullHistory, FileNullCurrent}

(***************************************************************************)
(* State                                                                   *)
(***************************************************************************)
VARIABLES
  file,             \* contents of HISTORY_FILE
  status_history,   \* module globals, lines 57-59
  current_status,
  last_check_time,
  now,              \* the wall clock read by datetime.now()
  pc,               \* where the process is: "import" (line 93 not yet run) or
                    \* the next statement of monitor_loop
  i,                \* position of the for loops of lines 130-131 in Endpoints
  result,           \* the local variable result of monitor_loop
  cycle,            \* iterations of while True begun, all processes
  restarts,         \* process restarts so far
  net_failures,     \* requests that ended in a transport error so far
  io_failures,      \* snapshot writes that failed so far
  \* history variables, for the properties only
  k,                \* iterations begun by this process
  probed,           \* per endpoint, the results check_website returned to this process
  order,            \* the endpoints probed in this iteration, in order
  appends,          \* the endpoints whose history was appended to in this iteration
  faulted,          \* the except clause of line 150 ran in this iteration
  faults,           \* iterations of this process ended by the except clause
  stamps,           \* executions of line 146 by this process
  saves,            \* calls of save_history by this process
  last_io,          \* how the last save_history call ended ("none" before any)
  saved,            \* the state the current file was written from, None if the
                    \* file was not written by a complete save_history
  loaded,           \* the state load_history left at line 93
  lists_only,       \* the snapshot read at line 93 held only lists as history values
  stable,           \* per endpoint, the (current, history) pairs the globals held
                    \* between two per-endpoint updates
  outcome,          \* what the network did to the last request of check_website
  before,           \* what the globals held for the endpoint being processed when
                    \* line 132 was reached
  \* a request thread running get_payload
  rpc,              \* "idle", or the next statement of get_payload / get_status
  rg,               \* position of the for loop of line 159 in SERVICE_GROUPS
  rs,               \* position of the for loop of line 161 in the group's sites
  history,          \* the local variable history: which list object it refers to
  uptime,           \* the local variable uptime, in tenths of a percent
  site_list,        \* the local variable site_list
  groups_data,      \* the local variable groups_data
  payload,          \* the value get_payload returned
  response,         \* the JSON document sent
  requests,         \* requests begun so far
  \* the operating-system processes created by running the script
  FLASK_DEBUG,      \* the environment asks for debug mode (app.debug before app.run)
  procs,            \* per process: where it is, app.debug, WERKZEUG_RUN_MAIN,
                    \* monitor threads started, cycles they completed
  reloads,          \* child processes replaced by the reloader so far
  writers           \* the processes that have written the snapshot file

reader_vars ==
  << rpc, rg, rs, history, uptime, site_list, groups_data, payload, response,
     requests >>

startup_vars == << FLASK_DEBUG, procs, reloads, writers >>

probe_vars == << outcome, before >>

monitor_vars ==
  << file, status_history, current_status, last_check_time, now, pc, i, result,
     cycle, restarts, net_failures, io_failures, k, probed, order, appends,
     faulted, faults, stamps, saves, last_io, saved, loaded, lists_only, stable,
     probe_vars >>

vars == << monitor_vars, reader_vars, startup_vars >>

mem_vars == << status_history, current_status, last_check_time >>

CurrentMem == Mem(status_history, current_status, last_check_time)
EmptyMem == Mem(PyDict(<<>>), PyDict(<<>>), None)
NoProbes == [n \in Names |-> <<>>]

\* Every history value of the snapshot is a list (trivially so without a snapshot)
ListsOnly(f) ==
  f.kind = "text" =>
    LET data == JsonDecode(f.json) IN
    data.kind = "dict" =>
      LET h == DictGet(data, "history", PyDict(<<>>)) IN
      h.kind = "dict" /\ \A j \in DOMAIN h.items : h.items[j].v.kind = "list"

\* Line 176: the default of current_status.get
Unknown == [status |-> "unknown", time |-> 0]

\* What the globals hold for one endpoint
View(h, c, n) ==
  [current |-> IF c.kind = "dict" THEN DictGet(c, n, Unknown) ELSE Unknown,
   history |-> IF h.kind = "dict" /\ DictHas(h, n) /\ DictItem(h, n).kind = "list"
               THEN DictItem(h, n).elems ELSE <<>>]

\* The entries of the two dicts for one endpoint as they are, None where the
\* dict has none
Held(h, c, n) ==
  [current |-> IF c.kind = "dict" THEN DictGet(c, n, None) ELSE None,
   history |-> IF h.kind = "dict" THEN DictGet(h, n, None) ELSE None]

Processes == {"parent", "child"}
NotRunning ==
  [at |-> "none", debug |-> FALSE, run_main |-> FALSE, loaded |-> FALSE,
   threads |-> 0, cycles |-> 0]

\* A process that begins to execute the script
Started(debug, run_main) ==
  [at |-> "import", debug |-> debug, run_main |-> run_main, loaded |-> FALSE,
   threads |-> 0, cycles |-> 0]

\* python app.py has just been entered
StartupInit ==
  /\ procs = [p \in Processes |->
               IF p = "parent" THEN Started(FLASK_DEBUG, FALSE) ELSE NotRunning]
  /\ reloads = 0
  /\ writers = {}

MonitorInit ==
  /\ status_history = PyDict(<<>>)
  /\ current_status = PyDict(<<>>)
  /\ last_check_time = None
  /\ now = 0
  /\ pc = "import"
  /\ i = 1
  /\ result = None
  /\ cycle = 0
  /\ restarts = 0
  /\ net_failures = 0
  /\ io_failures = 0
  /\ k = 0
  /\ probed = NoProbes
  /\ order = <<>>
  /\ appends = <<>>
  /\ faulted = FALSE
  /\ faults = 0
  /\ stamps = 0
  /\ saves = 0
  /\ last_io = "none"
  /\ saved = None
  /\ loaded = None
  /\ lists_only = TRUE
  /\ stable = [n \in Names |-> {}]
  /\ outcome = None
  /\ before = None
  /\ rpc = "idle"
  /\ rg = 1
  /\ rs = 1
  /\ history = None
  /\ uptime = 0
  /\ site_list = <<>>
  /\ groups_data = <<>>
  /\ payload = None
  /\ response = None
  /\ requests = 0

Init ==
  /\ file \in InitialFiles
  /\ MonitorInit
  /\ FLASK_DEBUG = FALSE
  /\ StartupInit

Name == Endpoints[i].name

\* The history variables count and record the iterations explored: beyond
\* MaxCycles iterations a count stays and a record keeps its last entries
Counted(n) == IF n < MaxCycles THEN n + 1 ELSE n

(***************************************************************************)
(* Start-up: line 93, then the monitor thread begins its first iteration   *)
(***************************************************************************)
Load ==
  /\ pc = "import"
  /\ cycle < MaxCycles
  /\ LET m == load_history(file, CurrentMem) IN
       /\ status_history' = m.status_history
       /\ current_status' = m.current_status
       /\ last_check_time' = m.last_check_time
       /\ loaded' = m
  /\ lists_only' = ListsOnly(file)
  /\ stable' = [n \in Names |->
                  {View(load_history(file, CurrentMem).status_history,
                        load_history(file, CurrentMem).current_status, n)}]
  /\ pc' = "probe"
  /\ i' = 1
  /\ cycle' = cycle + 1
  /\ k' = 1
  /\ faulted' = FALSE
  /\ order' = <<>>
  /\ appends' = <<>>
  /\ UNCHANGED << net_failures, io_failures, file, now, result, restarts,
                  probed, faults, stamps, saves, last_io, saved,
                  probe_vars, reader_vars, startup_vars >>

(***************************************************************************)
(* monitor_loop, one statement per step                                    *)
(***************************************************************************)
\* An except clause inside the while body but around the for loops only:
\* lines 146-147 run after a fault too
ExceptThenStamp ==
  /\ pc' = "stamp"
  /\ faulted' = TRUE
  /\ faults' = Counted(faults)

\* The except clause of lines 150-151, then on to line 153
Except ==
  /\ pc' = "sleep"
  /\ faulted' = TRUE
  /\ faults' = Counted(faults)

\* Line 132
Probe(outcomes) ==
  /\ pc = "probe"
  /\ \E o \in outcomes :
       /\ o.kind = "exception" => net_failures < MaxNetFailures
       /\ net_failures' = IF o.kind = "exception" THEN net_failures + 1
                          ELSE net_failures
       /\ outcome' = o
       /\ result' = check_website(o, now)
       /\ probed' = [probed EXCEPT ![Name] =
                       Tail_n(Append(@, check_website(o, now)), MaxCycles)]
  /\ before' = Held(status_history, current_status, Name)
  /\ order' = Append(order, Name)
  /\ pc' = "set_current"
  /\ UNCHANGED << appends, file, mem_vars, now, i, cycle, restarts,
                  io_failures, k, faulted, faults, stamps, saves, last_io,
                  saved, loaded, lists_only, stable, reader_vars,
                  startup_vars >>

\* Line 135
SetCurrent ==
  /\ pc = "set_current"
  /\ IF current_status.kind = "dict"
     THEN /\ current_status' = DictSet(current_status, Name, result)
          /\ pc' = "ensure"
          /\ UNCHANGED << faulted, faults >>
     ELSE /\ Except
          /\ UNCHANGED current_status
  /\ UNCHANGED << order, appends, net_failures, io_failures, file,
                  status_history, last_check_time, now, i, result, cycle,
                  restarts, k, probed, stamps, saves, last_io, saved,
                  loaded, lists_only, stable, probe_vars, reader_vars, startup_vars >>

\* Lines 138-139
Ensure ==
  /\ pc = "ensure"
  /\ IF status_history.kind \in {"dict", "list", "str"}
     THEN /\ status_history' =
               IF status_history.kind = "dict" /\ ~DictHas(status_history, Name)
               THEN DictSet(status_history, Name, PyList(<<>>))
               ELSE status_history
          /\ IF status_history.kind = "dict"
             THEN pc' = "append" /\ UNCHANGED << faulted, faults >>
             ELSE Except
     ELSE /\ Except
          /\ UNCHANGED status_history
  /\ UNCHANGED << order, appends, net_failures, io_failures, file,
                  current_status, last_check_time, now, i, result, cycle,
                  restarts, k, probed, stamps, saves, last_io, saved,
                  loaded, lists_only, stable, probe_vars, reader_vars, startup_vars >>

\* Line 141
AppendResult ==
  /\ pc = "append"
  /\ LET h == DictItem(status_history, Name) IN
     IF h.kind = "list"
     THEN /\ status_history' =
               DictSet(status_history, Name, PyList(Append(h.elems, result)))
          /\ appends' = Append(appends, Name)
          /\ pc' = "evict"
          /\ UNCHANGED << faulted, faults >>
     ELSE /\ Except
          /\ UNCHANGED << status_history, appends >>
  /\ UNCHANGED << order, net_failures, io_failures, file, current_status,
                  last_check_time, now, i, result, cycle, restarts, k,
                  probed, stamps, saves, last_io, saved, loaded, lists_only,
                  stable, probe_vars, reader_vars, startup_vars >>

\* Eviction one entry too late
EvictedLate(elems) ==
  IF Len(elems) > HISTORY_LENGTH + 1 THEN Tail(elems) ELSE elems

\* Eviction of the newest entry
EvictedNewest(elems) ==
  IF Len(elems) > HISTORY_LENGTH THEN SubSeq(elems, 1, Len(elems) - 1) ELSE elems

\* Lines 143-144
Evicted(elems) == IF Len(elems) > HISTORY_LENGTH THEN Tail(elems) ELSE elems

\* Lines 143-144, then the for loops move on
Evict ==
  /\ pc = "evict"
  /\ status_history' =
       DictSet(status_history, Name,
               PyList(Evicted(DictItem(status_history, Name).elems)))
  /\ stable' = [stable EXCEPT ![Name] =
                  @ \cup {View(status_history', current_status, Name)}]
  /\ IF i < NumEndpoints
     THEN i' = i + 1 /\ pc' = "probe"
     ELSE i' = i /\ pc' = "stamp"
  /\ UNCHANGED << order, appends, net_failures, io_failures, file,
                  current_status, last_check_time, now, result, cycle,
                  restarts, k, probed, faulted, faults, stamps, saves,
                  last_io, saved, loaded, lists_only, probe_vars, reader_vars,
                  startup_vars >>

\* Line 146
Stamp ==
  /\ pc = "stamp"
  /\ last_check_time' = DateTime(now)
  /\ stamps' = Counted(stamps)
  /\ pc' = "save"
  /\ UNCHANGED << order, appends, net_failures, io_failures, file,
                  status_history, current_status, now, i, result, cycle,
                  restarts, k, probed, faulted, faults, saves, last_io,
                  saved, loaded, lists_only, stable, probe_vars, reader_vars,
                  startup_vars >>

\* save_history without its try: what open or json.dump raise reaches the
\* except clause of monitor_loop
SavePropagates(ios) ==
  /\ pc = "save"
  /\ \E io \in ios :
       /\ io # "ok" => io_failures < MaxIOFailures
       /\ io_failures' = IF io # "ok" THEN io_failures + 1 ELSE io_failures
       /\ file' = save_history(file, CurrentMem, io)
       /\ last_io' = io
       /\ saved' = IF io = "ok" THEN CurrentMem
                   ELSE IF io = "open" THEN saved
                   ELSE None
  /\ saves' = Counted(saves)
  /\ pc' = "sleep"
  /\ \/ last_io' = "ok" /\ UNCHANGED << faulted, faults >>
     \/ last_io' # "ok" /\ faulted' = TRUE /\ faults' = Counted(faults)
  /\ UNCHANGED << order, appends, mem_vars, now, i, result, cycle, restarts,
                  net_failures, k, probed, stamps, loaded, lists_only,
                  stable, probe_vars, reader_vars, startup_vars >>

\* Line 147: save_history catches what open or json.dump raise
Save(ios) ==
  /\ pc = "save"
  /\ \E io \in ios :
       /\ io # "ok" => io_failures < MaxIOFailures
       /\ io_failures' = IF io # "ok" THEN io_failures + 1 ELSE io_failures
       /\ file' = save_history(file, CurrentMem, io)
       /\ last_io' = io
       /\ saved' = IF io = "ok" THEN CurrentMem
                   ELSE IF io = "open" THEN saved
                   ELSE None
  /\ saves' = Counted(saves)
  /\ pc' = "sleep"
  /\ UNCHANGED << order, appends, mem_vars, now, i, result, cycle, restarts,
                  net_failures, k, probed, faulted, faults, stamps, loaded,
                  lists_only, stable, probe_vars, reader_vars, startup_vars >>

\* Line 153, then the next iteration of while True begins
Sleep ==
  /\ pc = "sleep"
  /\ cycle < MaxCycles
  /\ now' = now + UPDATE_INTERVAL
  /\ cycle' = cycle + 1
  /\ k' = k + 1
  /\ i' = 1
  /\ faulted' = FALSE
  /\ order' = <<>>
  /\ appends' = <<>>
  /\ pc' = "probe"
  /\ UNCHANGED << net_failures, io_failures, file, mem_vars, result,
                  restarts, probed, faults, stamps, saves, last_io, saved,
                  loaded, lists_only, stable, probe_vars, reader_vars, startup_vars >>

\* Line 153 once MaxCycles iterations were explored: the loop goes on, the
\* clock and the counts of the model stay
SleepOn ==
  /\ pc = "sleep"
  /\ cycle >= MaxCycles
  /\ i' = 1
  /\ faulted' = FALSE
  /\ order' = <<>>
  /\ appends' = <<>>
  /\ pc' = "probe"
  /\ UNCHANGED << now, cycle, k, net_failures, io_failures, file, mem_vars,
                  result, restarts, probed, faults, stamps, saves, last_io,
                  saved, loaded, lists_only, stable, probe_vars, reader_vars,
                  startup_vars >>

(***************************************************************************)
(* The process is stopped between two cycles and the script run again      *)
(***************************************************************************)
Restart ==
  /\ pc = "sleep"
  /\ restarts < MaxRestarts
  /\ restarts' = restarts + 1
  /\ status_history' = PyDict(<<>>)
  /\ current_status' = PyDict(<<>>)
  /\ last_check_time' = None
  /\ pc' = "import"
  /\ i' = 1
  /\ result' = None
  /\ k' = 0
  /\ probed' = NoProbes
  /\ faulted' = FALSE
  /\ order' = <<>>
  /\ appends' = <<>>
  /\ faults' = 0
  /\ stamps' = 0
  /\ saves' = 0
  /\ last_io' = "none"
  /\ loaded' = None
  /\ lists_only' = TRUE
  /\ stable' = [n \in Names |-> {}]
  /\ outcome' = None
  /\ before' = None
  /\ now' = now + UPDATE_INTERVAL
  /\ UNCHANGED << net_failures, io_failures, file, cycle, saved,
                  reader_vars, startup_vars >>

\* Where a process stopped inside save_history leaves the file: before
\* open(HISTORY_FILE, 'w') (untouched), after it and before json.dump and the
\* close have written everything (truncated: empty or cut short), or after
CrashPoints == {"before open", "truncated", "written"}

\* The process is stopped while it is in save_history (line 147), and the
\* script run again
Kill ==
  /\ pc = "save"
  /\ restarts < MaxRestarts
  /\ restarts' = restarts + 1
  /\ \E at \in CrashPoints :
       /\ file' = CASE at = "before open" -> file
                     [] at = "truncated" -> FileGarbage
                     [] at = "written" -> save_history(file, CurrentMem, "ok")
       /\ saved' = CASE at = "before open" -> saved
                      [] at = "truncated" -> None
                      [] at = "written" -> CurrentMem
  /\ status_history' = PyDict(<<>>)
  /\ current_status' = PyDict(<<>>)
  /\ last_check_time' = None
  /\ pc' = "import"
  /\ i' = 1
  /\ result' = None
  /\ k' = 0
  /\ probed' = NoProbes
  /\ faulted' = FALSE
  /\ order' = <<>>
  /\ appends' = <<>>
  /\ faults' = 0
  /\ stamps' = 0
  /\ saves' = 0
  /\ last_io' = "none"
  /\ loaded' = None
  /\ lists_only' = TRUE
  /\ stable' = [n \in Names |-> {}]
  /\ outcome' = None
  /\ before' = None
  /\ now' = now + UPDATE_INTERVAL
  /\ UNCHANGED << net_failures, io_failures, cycle, reader_vars, startup_vars >>

(***************************************************************************)
(* get_payload, run by a request thread while monitor_loop runs            *)
(***************************************************************************)
\* The order of str comparison on the configured names
NameRank(name) ==
  CASE name = "Canvas" -> 1
    [] name = "OpenAI (ChatGPT)" -> 2
    [] name = "Self-Service" -> 3

RECURSIVE InsertByName(_, _)
InsertByName(sorted, e) ==
  IF sorted = <<>> THEN << e >>
  ELSE IF NameRank(e.name) < NameRank(Head(sorted).name)
  THEN << e >> \o sorted
  ELSE << Head(sorted) >> \o InsertByName(Tail(sorted), e)

\* Line 181 left out: the entries stay in the order of the loop of line 161
Unsorted(seq) == seq

\* Line 181: list.sort(key=name), a stable sort
RECURSIVE SortByName(_)
SortByName(seq) ==
  IF seq = <<>> THEN <<>>
  ELSE InsertByName(SortByName(SubSeq(seq, 1, Len(seq) - 1)), seq[Len(seq)])

\* The tenths cut off instead of rounded
Truncated(up, n) == (1000 * up) \div n

\* round(x, 1) of x = 100 * up / n, in tenths: to nearest, ties to even
RoundTenths(up, n) ==
  LET q == (1000 * up) \div n
      r == (1000 * up) % n
  IN  IF 2 * r < n THEN q
      ELSE IF 2 * r > n THEN q + 1
      ELSE IF q % 2 = 0 THEN q ELSE q + 1

\* Lines 165-169
Uptime(elems) ==
  IF Len(elems) > 0
  THEN RoundTenths(Cardinality({j \in DOMAIN elems : elems[j].status = "up"}),
                   Len(elems))
  ELSE 0

RSite == SERVICE_GROUPS[rg].sites[rs]

\* A request arrives once the module is imported
BeginRequest ==
  /\ rpc \in {"idle", "done", "error"}
  /\ pc # "import"
  /\ requests < MaxRequests
  /\ requests' = requests + 1
  /\ rpc' = "history"
  /\ rg' = 1
  /\ rs' = 1
  /\ site_list' = <<>>
  /\ groups_data' = <<>>
  /\ history' = None
  /\ uptime' = 0
  /\ payload' = None
  /\ response' = None
  /\ UNCHANGED << monitor_vars, startup_vars >>

\* Lines 162-169: history refers to the list object held by status_history, or
\* to a new empty list; the uptime is computed from what the list holds now
ReadHistory ==
  /\ rpc = "history"
  /\ IF status_history.kind # "dict"
     THEN rpc' = "error" /\ UNCHANGED << history, uptime >>
     ELSE LET h == DictGet(status_history, RSite.name, PyList(<<>>)) IN
          IF h.kind # "list"
          THEN rpc' = "error" /\ UNCHANGED << history, uptime >>
          ELSE /\ history' = [kind |-> "ref",
                              shared |-> DictHas(status_history, RSite.name)]
               /\ uptime' = Uptime(h.elems)
               /\ rpc' = "entry"
  /\ UNCHANGED << rg, rs, site_list, groups_data, payload, response,
                  requests, monitor_vars, startup_vars >>

\* Lines 172-178, then lines 181-182 after the last site of a group
AddEntry ==
  /\ rpc = "entry"
  /\ IF current_status.kind # "dict"
     THEN rpc' = "error" /\ UNCHANGED << rg, rs, site_list, groups_data >>
     ELSE LET e == [name |-> RSite.name, url |-> RSite.url, uptime |-> uptime,
                    current |-> DictGet(current_status, RSite.name, Unknown),
                    history |-> history]
              sites == Append(site_list, e)
          IN  IF rs < Len(SERVICE_GROUPS[rg].sites)
              THEN /\ site_list' = sites
                   /\ rs' = rs + 1
                   /\ rpc' = "history"
                   /\ UNCHANGED << rg, groups_data >>
              ELSE /\ groups_data' =
                        Append(groups_data,
                               [group |-> SERVICE_GROUPS[rg].group,
                                sites |-> SortByName(sites)])
                   /\ site_list' = <<>>
                   /\ IF rg < Len(SERVICE_GROUPS)
                      THEN rg' = rg + 1 /\ rs' = 1 /\ rpc' = "history"
                      ELSE rg' = rg /\ rs' = rs /\ rpc' = "return"
  /\ UNCHANGED << history, uptime, payload, response, requests,
                  monitor_vars, startup_vars >>

\* Lines 184-187
Return ==
  /\ rpc = "return"
  /\ payload' = [last_check |-> IF Truthy(last_check_time)
                                THEN PyStr(isoformat(last_check_time))
                                ELSE None,
                 groups |-> groups_data]
  /\ rpc' = "serialize"
  /\ UNCHANGED << rg, rs, history, uptime, site_list, groups_data, response,
                  requests, monitor_vars, startup_vars >>

\* What a list reference of the payload holds when it is read
Deref(name, ref) ==
  IF ref.shared THEN View(status_history, current_status, name).history ELSE <<>>

\* Line 195 (and line 191): the payload is turned into text; the history
\* lists it refers to are read now
Serialize ==
  /\ rpc = "serialize"
  /\ response' =
       [last_check |-> payload.last_check,
        groups |-> [g \in DOMAIN payload.groups |->
                      [group |-> payload.groups[g].group,
                       sites |-> [j \in DOMAIN payload.groups[g].sites |->
                                    [payload.groups[g].sites[j] EXCEPT
                                       !.history =
                                          Deref(payload.groups[g].sites[j].name,
                                                payload.groups[g].sites[j].history)]]]]]
  /\ rpc' = "done"
  /\ UNCHANGED << rg, rs, history, uptime, site_list, groups_data, payload,
                  requests, monitor_vars, startup_vars >>

Next ==
  \/ Load
  \/ Probe(NetOutcomes)
  \/ SetCurrent
  \/ Ensure
  \/ AppendResult
  \/ Evict
  \/ Stamp
  \/ Save(IOOutcomes)
  \/ Sleep
  \/ Restart

Spec == Init /\ [][Next]_vars

(***************************************************************************)
(* One process serving requests while its monitor thread runs: the network *)
(* answers, the disk works, the snapshot found is absent or well-formed    *)
(***************************************************************************)
ServingOutcomes == {Response(200, 12)}
ServingFiles == {FileMissing, FileGood}

InitServing ==
  /\ file \in ServingFiles
  /\ MonitorInit
  /\ FLASK_DEBUG = FALSE
  /\ StartupInit

NextServing ==
  \/ Load
  \/ Probe(ServingOutcomes)
  \/ SetCurrent
  \/ Ensure
  \/ AppendResult
  \/ Evict
  \/ Stamp
  \/ Save({"ok"})
  \/ Sleep
  \/ BeginRequest
  \/ ReadHistory
  \/ AddEntry
  \/ Return
  \/ Serialize

SpecServing == InitServing /\ [][NextServing]_vars

(***************************************************************************)
(* One process serving requests while its monitor thread runs, whatever    *)
(* snapshot it found: the network answers, the disk works                  *)
(***************************************************************************)
NextRequests ==
  \/ Load
  \/ Probe(ServingOutcomes)
  \/ SetCurrent
  \/ Ensure
  \/ AppendResult
  \/ Evict
  \/ Stamp
  \/ Save({"ok"})
  \/ Sleep
  \/ BeginRequest
  \/ ReadHistory
  \/ AddEntry
  \/ Return
  \/ Serialize

SpecRequests == Init /\ [][NextRequests]_vars

(***************************************************************************)
(* The process may also be stopped in the middle of save_history           *)
(***************************************************************************)
NextCrash ==
  \/ Next
  \/ Kill

SpecCrash == Init /\ [][NextCrash]_vars

(***************************************************************************)
(* The monitor thread left to run for ever: while True never ends, the     *)
(* thread is scheduled, requests.get and time.sleep return                 *)
(***************************************************************************)
NextLive ==
  \/ Load
  \/ Probe(NetOutcomes)
  \/ SetCurrent
  \/ Ensure
  \/ AppendResult
  \/ Evict
  \/ Stamp
  \/ Save(IOOutcomes)
  \/ Sleep
  \/ SleepOn

SpecLive == Init /\ [][NextLive]_vars /\ WF_vars(NextLive)

(***************************************************************************)
(* Running the script: lines 93 and 197-202, with the reloader that        *)
(* app.run(debug=True) starts                                              *)
(***************************************************************************)
\* Line 93, executed by every process that runs the script
Import(p) ==
  /\ procs[p].at = "import"
  /\ procs' = [procs EXCEPT ![p].at = "main", ![p].loaded = TRUE]
  /\ UNCHANGED << FLASK_DEBUG, reloads, writers, monitor_vars, reader_vars >>

\* The condition of line 199
StartsMonitor(q) == q.run_main \/ ~q.debug

\* Lines 199-200
Guard(p) ==
  /\ procs[p].at = "main"
  /\ procs' = [procs EXCEPT
                 ![p].at = "run",
                 ![p].threads = IF StartsMonitor(procs[p]) THEN @ + 1 ELSE @]
  /\ UNCHANGED << FLASK_DEBUG, reloads, writers, monitor_vars, reader_vars >>

\* Line 202: app.run(debug=True) sets app.debug and runs under the reloader. A
\* process without WERKZEUG_RUN_MAIN becomes the reloader: it runs the script
\* again in a child process with WERKZEUG_RUN_MAIN set and waits for it, its
\* other threads running on. The child serves.
Run(p) ==
  /\ procs[p].at = "run"
  /\ IF procs[p].run_main
     THEN procs' = [procs EXCEPT ![p].at = "serve", ![p].debug = TRUE]
     ELSE procs' = [procs EXCEPT ![p].at = "supervise", ![p].debug = TRUE,
                                 !["child"] = Started(FLASK_DEBUG, TRUE)]
  /\ UNCHANGED << FLASK_DEBUG, reloads, writers, monitor_vars, reader_vars >>

\* A source file changed: the child exits and the reloader runs the script again
Reload ==
  /\ procs["parent"].at = "supervise"
  /\ procs["child"].at = "serve"
  /\ reloads < MaxReloads
  /\ reloads' = reloads + 1
  /\ procs' = [procs EXCEPT !["child"] = Started(FLASK_DEBUG, TRUE)]
  /\ UNCHANGED << FLASK_DEBUG, writers, monitor_vars, reader_vars >>

\* A monitor thread of process p completes a cycle and writes the snapshot
MonitorCycle(p) ==
  /\ procs[p].threads > 0
  /\ procs[p].cycles < MaxCycles
  /\ procs' = [procs EXCEPT ![p].cycles = @ + 1]
  /\ writers' = writers \cup {p}
  /\ UNCHANGED << FLASK_DEBUG, reloads, monitor_vars, reader_vars >>

InitStartup ==
  /\ file = FileMissing
  /\ MonitorInit
  /\ FLASK_DEBUG \in BOOLEAN
  /\ StartupInit

NextStartup ==
  \/ \E p \in Processes : Import(p)
  \/ \E p \in Processes : Guard(p)
  \/ \E p \in Processes : Run(p)
  \/ \E p \in Processes : MonitorCycle(p)
  \/ Reload

SpecStartup == InitStartup /\ [][NextStartup]_vars

(***************************************************************************)
(* check_website on its own: every kind of answer and of transport failure *)
(***************************************************************************)
StatusCodes ==
  {200, 201, 202, 204, 301, 302, 304, 400, 401, 403, 404, 429, 500, 502, 503}
ElapsedMs == {0, 12, 4999}
Causes == {"timed out", "name resolution failed", "certificate verify failed",
           "connection refused", ""}

ProbeOutcomes ==
  {Response(c, ms) : c \in StatusCodes, ms \in ElapsedMs}
    \cup {Failure(m) : m \in Causes}

\* One call of check_website
CheckWebsite ==
  /\ \E o \in ProbeOutcomes :
       /\ outcome' = o
       /\ result' = check_website(o, now)
  /\ UNCHANGED << file, mem_vars, now, pc, i, cycle, restarts, net_failures,
                  io_failures, k, probed, order, appends, faulted, faults,
                  stamps, saves, last_io, saved, loaded, lists_only, stable,
                  before, reader_vars, startup_vars >>

\* Time passes between two calls
Tick ==
  /\ now + UPDATE_INTERVAL <= MaxTime
  /\ now' = now + UPDATE_INTERVAL
  /\ UNCHANGED << file, mem_vars, pc, i, result, cycle, restarts,
                  net_failures, io_failures, k, probed, order, appends,
                  faulted, faults, stamps, saves, last_io, saved, loaded,
                  lists_only, stable, probe_vars, reader_vars, startup_vars >>

InitProbe ==
  /\ file = FileMissing
  /\ MonitorInit
  /\ FLASK_DEBUG = FALSE
  /\ StartupInit

NextProbe ==
  \/ CheckWebsite
  \/ Tick

SpecProbe == InitProbe /\ [][NextProbe]_vars

(***************************************************************************)
(* Lines 162-169 of get_payload on their own: the uptime of every mix of   *)
(* up and down results                                                     *)
(***************************************************************************)
\* n results of which the first u (the last u, if not first) are up
Mixed(n, u, first) ==
  [j \in 1..n |->
     IF (first /\ j <= u) \/ (~first /\ j > n - u)
     THEN OldUp(0 - (n - j + 1) * UPDATE_INTERVAL)
     ELSE OldDown(0 - (n - j + 1) * UPDATE_INTERVAL)]

Histories == {Mixed(n, u, first) : n \in 0..MaxLen, u \in 0..MaxLen, first \in BOOLEAN}

\* Line 162: the list get_payload found for an endpoint
TakeHistory ==
  /\ rpc \in {"idle", "computed"}
  /\ \E h \in Histories : history' = PyList(h)
  /\ uptime' = 0
  /\ rpc' = "uptime"
  /\ UNCHANGED << rg, rs, site_list, groups_data, payload, response,
                  requests, monitor_vars, startup_vars >>

\* Lines 165-169
ComputeUptime ==
  /\ rpc = "uptime"
  /\ uptime' = IF Truthy(history) THEN Uptime(history.elems) ELSE 0
  /\ rpc' = "computed"
  /\ UNCHANGED << rg, rs, history, site_list, groups_data, payload, response,
                  requests, monitor_vars, startup_vars >>

NextUptime ==
  \/ TakeHistory
  \/ ComputeUptime

SpecUptime == InitProbe /\ [][NextUptime]_vars

(***************************************************************************)
(* Properties                                                              *)
(***************************************************************************)
ConfigOrder == [j \in 1..NumEndpoints |-> Endpoints[j].name]
Range(seq) == {seq[j] : j \in DOMAIN seq}

\* The state right after load_history ran at import
JustLoaded == pc = "probe" /\ k = 1 /\ i = 1

\* C1: once load_history has run, and outside the window between an append and
\* its eviction, no history is longer than HISTORY_LENGTH, whenever the loaded
\* snapshot held only lists as history values.
C1_HistoryBounded ==
  (pc \notin {"import", "evict"} /\ lists_only) =>
    /\ status_history.kind = "dict"
    /\ \A j \in DOMAIN status_history.items :
         /\ status_history.items[j].v.kind = "list"
         /\ Len(status_history.items[j].v.elems) <= HISTORY_LENGTH

\* An over-long loaded history was cut, and an append to a full history evicted
C1_Witness ==
  /\ lists_only
  /\ file = FileGood
  /\ pc = "stamp"
  /\ Len(DictItem(status_history, "Old Service").elems) = HISTORY_LENGTH
  /\ Len(DictItem(status_history, "Self-Service").elems) = HISTORY_LENGTH
  /\ Len(probed["Self-Service"]) = 1

\* C2: started from the empty state, after k iterations none of which faulted,
\* the history of every configured endpoint is the last min(k, HISTORY_LENGTH)
\* results probed for it, oldest first.
C2_Fifo ==
  (loaded = EmptyMem /\ faults = 0 /\ pc \in {"stamp", "save", "sleep"}) =>
    \A n \in Names :
      /\ Len(probed[n]) = k
      /\ DictHas(status_history, n)
      /\ DictItem(status_history, n) = PyList(Tail_n(probed[n], HISTORY_LENGTH))

\* More iterations than the capacity, so the oldest results were dropped
C2_Witness ==
  /\ loaded = EmptyMem
  /\ faults = 0
  /\ pc = "sleep"
  /\ k = HISTORY_LENGTH + 1
  /\ \A n \in Names : Len(DictItem(status_history, n).elems) = HISTORY_LENGTH

\* C3: an iteration in which processing an endpoint raised still probes every
\* configured endpoint.
C3_FaultIsolated ==
  (pc = "sleep" /\ faulted) => Names \subseteq Range(order)

\* The snapshot file is unusable: invalid JSON, or not matching the schema
MatchesSchema(f) ==
  /\ f.kind = "text"
  /\ LET data == JsonDecode(f.json) IN
     /\ data.kind = "dict"
     /\ LET h == DictGet(data, "history", PyDict(<<>>))
            c == DictGet(data, "current", PyDict(<<>>))
            lc == DictGet(data, "last_check", None)
        IN  /\ h.kind = "dict"
            /\ \A j \in DOMAIN h.items : h.items[j].v.kind = "list"
            /\ c.kind = "dict"
            /\ lc.kind = "none" \/ (lc.kind = "str" /\ IsIsoText(lc.s))

\* C4: after load_history of a missing, invalid or schema-violating snapshot
\* the in-memory state is the empty state.
C4_LoadFallsBack ==
  (JustLoaded /\ ~MatchesSchema(file)) => CurrentMem = EmptyMem

\* A state with every list history cut to its last HISTORY_LENGTH entries
CutToCapacity(m) ==
  Mem(IF m.status_history.kind = "dict"
      THEN PyDict([j \in DOMAIN m.status_history.items |->
                     Item(m.status_history.items[j].k,
                          Slice(m.status_history.items[j].v))])
      ELSE m.status_history,
      m.current_status, m.last_check_time)

\* C5: a process started on a file written by a successful save_history holds,
\* after load_history, the saved state with its histories cut to capacity.
C5_RoundTrip ==
  (JustLoaded /\ restarts > 0 /\ saved # None) => CurrentMem = CutToCapacity(saved)

\* C6: every entry of a response pairs a current status and a history that
\* the globals held together between two per-endpoint updates.
C6_NoTornRead ==
  rpc = "done" =>
    \A g \in DOMAIN response.groups :
      \A j \in DOMAIN response.groups[g].sites :
        LET e == response.groups[g].sites[j] IN
        [current |-> e.current, history |-> e.history] \in stable[e.name]

\* C7: every process that starts a monitor thread has run load_history first,
\* and over all processes at most one monitor thread is running.
C7_SingleMonitor ==
  /\ \A p \in Processes : procs[p].threads > 0 => procs[p].loaded
  /\ procs["parent"].threads + procs["child"].threads <= 1
  /\ Cardinality(writers) <= 1

\* C8: when an iteration ends, every configured endpoint was probed once and
\* appended to once, in configuration order.
C8_OncePerCycleInOrder ==
  pc = "sleep" => (order = ConfigOrder /\ appends = ConfigOrder)

\* C9: last_check_time is assigned only at line 146, after every configured
\* endpoint was probed and appended to in this iteration and no fault occurred,
\* to a strictly later time; the file is written only by the save_history call
\* that follows that assignment; an iteration that ends has stamped and saved
\* once if it completed and not at all if it was aborted.
C9_StampThenSave ==
  /\ [][(last_check_time' # last_check_time /\ pc # "import" /\ pc' # "import") =>
          /\ pc = "stamp" /\ pc' = "save"
          /\ ~faulted
          /\ order = ConfigOrder /\ appends = ConfigOrder
          /\ last_check_time' = DateTime(now)
          /\ last_check_time.kind = "datetime" =>
               last_check_time'.t > last_check_time.t]_vars
  /\ [][((file' # file \/ saves' # saves) /\ pc' # "import") =>
          /\ pc = "save" /\ pc' = "sleep"
          /\ last_check_time = DateTime(now)
          /\ saves' = saves + 1 /\ saves' = stamps]_vars
  /\ [](pc = "sleep" => (stamps = k - faults /\ saves = stamps))

\* Two iterations completed, each stamped and saved, the first one after a
\* time stamp loaded from the snapshot
C9_Witness ==
  /\ pc = "sleep"
  /\ k = 2
  /\ stamps = 2
  /\ saves = 2
  /\ loaded.last_check_time.kind = "datetime"
  /\ last_check_time = DateTime(now)

\* C10: a save_history call whose write fails returns normally (the except
\* clause of monitor_loop does not run), leaves the three globals as they were
\* and is followed by line 153; a later call that succeeds writes the state of
\* that moment; every completed iteration calls save_history, whatever the
\* outcome of the earlier calls.
C10_SaveFailureContained ==
  /\ [][pc = "save" =>
          /\ pc' = "sleep"
          /\ UNCHANGED << mem_vars, faulted, faults >>
          /\ last_io' = "ok" => file' = FileText(JsonEncode(SaveData(CurrentMem)))
          /\ last_io' = "open" => file' = file]_vars
  /\ [](pc = "sleep" /\ ~faulted => saves = k - faults)

\* A write failed, and the save of a later iteration succeeded
C10_Witness ==
  /\ pc = "sleep"
  /\ restarts = 0
  /\ io_failures > 0
  /\ saves >= 2
  /\ last_io = "ok"
  /\ file = FileText(JsonEncode(SaveData(CurrentMem)))

GroupNames(g) ==
  [j \in DOMAIN response.groups[g].sites |-> response.groups[g].sites[j].name]

\* The names configured for one group, in configuration order
ConfiguredNames(g) ==
  [j \in DOMAIN SERVICE_GROUPS[g].sites |-> SERVICE_GROUPS[g].sites[j].name]

\* The groups of a response are the configured groups, in configuration order,
\* each under its label
GroupsAsConfigured ==
  /\ DOMAIN response.groups = DOMAIN SERVICE_GROUPS
  /\ \A g \in DOMAIN response.groups :
       response.groups[g].group = SERVICE_GROUPS[g].group

\* C12: a response lists every configured endpoint once, under its group, and
\* within each group in the order of the configuration.
C12_ConfigurationOrder ==
  rpc = "done" =>
    /\ GroupsAsConfigured
    /\ \A g \in DOMAIN response.groups : GroupNames(g) = ConfiguredNames(g)

\* C12 as amended: a response lists every configured endpoint once, with its
\* url, under its group; the groups are in configuration order and the
\* endpoints of a group are in ascending order of their names.
C12_SortedByName ==
  rpc = "done" =>
    /\ GroupsAsConfigured
    /\ \A g \in DOMAIN response.groups :
         /\ Len(GroupNames(g)) = Len(ConfiguredNames(g))
         /\ Range(GroupNames(g)) = Range(ConfiguredNames(g))
         /\ \A j \in DOMAIN GroupNames(g) :
              /\ \E c \in DOMAIN SERVICE_GROUPS[g].sites :
                   /\ SERVICE_GROUPS[g].sites[c].name = GroupNames(g)[j]
                   /\ SERVICE_GROUPS[g].sites[c].url = response.groups[g].sites[j].url
              /\ j > 1 => NameRank(GroupNames(g)[j - 1]) < NameRank(GroupNames(g)[j])

\* A response whose first group lists Canvas before Self-Service, the
\* configuration naming Self-Service first
C12_Witness ==
  /\ rpc = "done"
  /\ ConfiguredNames(1) = << "Self-Service", "Canvas" >>
  /\ GroupNames(1) = << "Canvas", "Self-Service" >>
  /\ GroupNames(2) = << "OpenAI (ChatGPT)" >>

\* The entries of a response, over all groups
Entries ==
  UNION {Range(response.groups[g].sites) : g \in DOMAIN response.groups}

\* C13: every request is answered with a payload, whatever the probes
\* returned; an endpoint no probe has completed for, in a process that loaded
\* nothing, is reported with current status "unknown", time 0, uptime 0.0 and
\* an empty history, and last_check is null until the first cycle completes.
C13_AlwaysWellFormed ==
  /\ rpc # "error"
  /\ rpc = "done" =>
       /\ GroupsAsConfigured
       /\ \A e \in Entries :
            (loaded = EmptyMem /\ probed[e.name] = <<>>) =>
              /\ e.current = Unknown
              /\ e.uptime = 0
              /\ e.history = <<>>
       /\ (loaded = EmptyMem /\ stamps = 0) => response.last_check = None

Abs(x) == IF x < 0 THEN 0 - x ELSE x

UpCount(elems) == Cardinality({j \in DOMAIN elems : elems[j].status = "up"})

\* C14: the uptime of an empty history is 0.0; of any other it is
\* 100 * up / n to the nearest tenth (33.3 for one up in three), between 0 and
\* 100, and 100 exactly when every entry is up; computing it leaves the history
\* as it was. (uptime is counted in tenths of a percent.)
C14_Uptime ==
  /\ [](rpc = "computed" =>
          LET n == Len(history.elems)
              up == UpCount(history.elems)
          IN  /\ n = 0 => uptime = 0
              /\ n > 0 => 2 * Abs(uptime * n - 1000 * up) <= n
              /\ uptime \in 0..1000
              /\ uptime = 1000 <=> (n > 0 /\ up = n)
              /\ (n = 3 /\ up = 1) => uptime = 333)
  /\ [][rpc = "uptime" => (history' = history /\ status_history' = status_history)]_vars

\* One up and two down: 33.3
C14_Witness ==
  /\ rpc = "computed"
  /\ Len(history.elems) = 3
  /\ UpCount(history.elems) = 1
  /\ uptime = 333

\* The keys of a dict (none, of a value that is no dict)
Keys(d) == IF d.kind = "dict" THEN {d.items[j].k : j \in DOMAIN d.items} ELSE {}

\* The process is between two per-endpoint updates
BetweenUpdates == pc \in {"probe", "stamp", "save", "sleep"}

\* C15: between two per-endpoint updates, load_history included, an endpoint
\* has a current status exactly when its history is not empty, and that
\* status is the last entry of the history.
C15_CurrentIsLastOfHistory ==
  BetweenUpdates =>
    /\ status_history.kind = "dict"
    /\ current_status.kind = "dict"
    /\ \A n \in Names \cup Keys(status_history) \cup Keys(current_status) :
         LET e == Held(status_history, current_status, n) IN
         /\ e.history.kind \in {"none", "list"}
         /\ e.current # None <=> (e.history.kind = "list" /\ Len(e.history.elems) > 0)
         /\ e.current # None => e.current = e.history.elems[Len(e.history.elems)]

\* The thread is iterating over the endpoints (Checking); at line 153 it is Idle
Checking == pc \in {"probe", "set_current", "ensure", "append", "evict", "stamp", "save"}

\* C16: the loop never stops: every iteration reaches line 153, line 153 is
\* always followed by another iteration, and every configured endpoint is
\* probed again and again, whatever the probes return, whichever endpoint
\* faults and whichever save fails.
C16_LoopLive ==
  /\ [](Checking => <>(pc = "sleep"))
  /\ [](pc = "sleep" => <>(pc = "probe"))
  /\ \A j \in 1..NumEndpoints : []<>(pc = "set_current" /\ i = j)

\* C17: when processing an endpoint raised, what the globals hold for that
\* endpoint, current status and history, is what they held when the iteration
\* came to it.
C17_FaultedEndpointUntouched ==
  (pc = "sleep" /\ faulted) =>
    Held(status_history, current_status, Name) = before

\* C18: when the process stops inside save_history, the file is the complete
\* snapshot it was before the call or the complete snapshot of the state
\* being saved.
C18_CrashAtomic ==
  [][(pc = "save" /\ pc' = "import") =>
       file' \in {file, FileText(JsonEncode(SaveData(CurrentMem)))}]_vars

\* C19: no response holds a history of more than HISTORY_LENGTH entries.
C19_PayloadHistoryBounded ==
  rpc = "done" => \A e \in Entries : Len(e.history) <= HISTORY_LENGTH

====
